---- MODULE Spec2Model ----
(***************************************************************************)
(* Model of src/map.js: the bike-share station traffic overlay.            *)
(*                                                                         *)
(* The map 'load' handler loads the station and the trip dataset, runs the *)
(* initial aggregation, draws one circle per station, registers the map    *)
(* and slider listeners and calls updateTimeDisplay once.  Afterwards      *)
(* every slider 'input' event runs updateTimeDisplay -> updateScatterPlot  *)
(* and every map view event runs updatePositions.  JavaScript runs each    *)
(* handler to completion, so each handler is one action; the two awaits of *)
(* the load handler are the only places where other events interleave.     *)
(*                                                                         *)
(* Numbers: JavaScript NaN is the value NaN below and the arithmetic that  *)
(* can meet it propagates it as IEEE arithmetic does.  A radius is kept in *)
(* hundredths of a pixel, rounded down.                                    *)
(***************************************************************************)
EXTENDS Integers, Sequences, FiniteSets, TLC

VARIABLES
    pc,            \* position of the async 'load' handler
    view,          \* the map's current view transform (pan offset)
    sliderValue,   \* timeSlider.value, a string (sequence of characters)
    listeners,     \* events that have a registered listener
    consoleErrors, \* what the code wrote with console.error
    stations,      \* the station objects, in dataset order
    trips,         \* the parsed trip records
    timeFilter,    \* let timeFilter
    filteredTrips, \* the trips handed to the latest aggregation pass
    radiusScale,   \* the d3.scaleSqrt object: domain and range
    circles,       \* the circle elements with their bound datum and attributes
    selectedTime,  \* selectedTime.textContent
    anyTimeDisplay \* anyTimeLabel.style.display

vars == <<pc, view, sliderValue, listeners, consoleErrors, stations, trips,
          timeFilter, filteredTrips, radiusScale, circles, selectedTime,
          anyTimeDisplay>>

(***************************************************************************)
(* Bounds of the model.                                                    *)
(***************************************************************************)
MaxTrips == 2
MaxView == 1

(***************************************************************************)
(* JavaScript numbers.                                                     *)
(***************************************************************************)
NaN == -100000

IsNaN(x) == x = NaN

JsSub(a, b) == IF IsNaN(a) \/ IsNaN(b) THEN NaN ELSE a - b

JsAdd(a, b) == IF IsNaN(a) \/ IsNaN(b) THEN NaN ELSE a + b

JsMul(a, b) == IF IsNaN(a) \/ IsNaN(b) THEN NaN ELSE a * b

JsAbs(a) == IF IsNaN(a) THEN NaN ELSE IF a < 0 THEN 0 - a ELSE a

\* a <= b: false as soon as one side is NaN
JsLeq(a, b) == ~IsNaN(a) /\ ~IsNaN(b) /\ a <= b

\* a === b on numbers: NaN equals nothing, itself included
JsStrictEq(a, b) == ~IsNaN(a) /\ ~IsNaN(b) /\ a = b

DigitChars == {"0", "1", "2", "3", "4", "5", "6", "7", "8", "9"}

DigitVal(c) ==
    CASE c = "0" -> 0 [] c = "1" -> 1 [] c = "2" -> 2 [] c = "3" -> 3
      [] c = "4" -> 4 [] c = "5" -> 5 [] c = "6" -> 6 [] c = "7" -> 7
      [] c = "8" -> 8 [] c = "9" -> 9

AllDigits(s) == \A i \in DOMAIN s : s[i] \in DigitChars

RECURSIVE ParseDigits(_)
ParseDigits(s) ==
    IF s = <<>> THEN 0
    ELSE 10 * ParseDigits(SubSeq(s, 1, Len(s) - 1)) + DigitVal(s[Len(s)])

\* Number(string) for strings made of digits, '-' and letters: the empty
\* string is 0, an optionally signed run of digits is its value, anything
\* else is NaN.
Number(s) ==
    IF s = <<>> THEN 0
    ELSE IF AllDigits(s) THEN ParseDigits(s)
    ELSE IF Head(s) = "-" /\ Tail(s) # <<>> /\ AllDigits(Tail(s))
         THEN 0 - ParseDigits(Tail(s))
    ELSE NaN

(***************************************************************************)
(* The inputs: station datasets, trip records, slider strings.             *)
(***************************************************************************)
InvalidDate == [hours |-> NaN, minutes |-> NaN]

Date(h, m) == [hours |-> h, minutes |-> m]

RawStation(id, lon, lat) == [short_name |-> id, lon |-> lon, lat |-> lat]

StationA == RawStation("A", 1, 2)

StationB == RawStation("B", 3, 4)

\* station datasets: ids are unique within a dataset
StationLists == { <<>>, <<StationA>>, <<StationA, StationB>>, <<StationB, StationA>> }

Trip(rid, s, e, st, en) ==
    [ride_id |-> rid, start_station_id |-> s, end_station_id |-> e,
     started_at |-> st, ended_at |-> en]

\* trip records as the row parser delivers them; "X" is the id of no station
TripPool == {
    Trip("r1", "A", "B", Date(8, 0), Date(8, 10)),
    Trip("r2", "B", "A", Date(8, 1), Date(8, 20)),
    Trip("r3", "A", "A", Date(23, 50), Date(23, 50)),
    Trip("r4", "A", "X", Date(9, 1), Date(10, 0)),
    Trip("r5", "B", "A", InvalidDate, Date(8, 10)),
    Trip("r6", "X", "B", Date(0, 5), Date(0, 20)) }

RECURSIVE SeqsUpTo(_, _)
SeqsUpTo(S, n) ==
    IF n = 0 THEN { <<>> }
    ELSE LET shorter == SeqsUpTo(S, n - 1)
         IN  shorter \cup { Append(q, x) : q \in shorter, x \in S }

\* trip datasets: ride ids are unique within a dataset
TripLists ==
    { T \in SeqsUpTo(TripPool, MaxTrips) :
        \A i, j \in DOMAIN T : i # j => T[i].ride_id # T[j].ride_id }

SliderValues == {
    <<"-", "1">>, <<"1", "0">>, <<"4", "2", "0">>, <<"4", "8", "0">>,
    <<"6", "0", "0">>, <<"2", "0", "0", "0">>, <<"a", "b", "c">>, <<>> }

MapEvents == {"move", "zoom", "resize", "moveend"}

(***************************************************************************)
(* Helper functions of map.js.                                             *)
(***************************************************************************)
\* map.project(LngLat(+lon, +lat)) in the current view: the projection is
\* the map library's; a pan by `v` shifts every projected point by `v`.
getCoords(station, v) == [cx |-> station.lon + v, cy |-> station.lat + v]

\* new Date(0, 0, 0, 0, minutes).toLocaleString('en-US', {timeStyle:'short'})
\* as <<hour on the 12-hour clock, minute, "AM" | "PM">>
formatTime(minutes) ==
    IF IsNaN(minutes) THEN << "Invalid Date" >>
    ELSE LET h24 == (minutes \div 60) % 24
             h12 == IF h24 % 12 = 0 THEN 12 ELSE h24 % 12
         IN  << h12, minutes % 60, IF h24 < 12 THEN "AM" ELSE "PM" >>

minutesSinceMidnight(date) == JsAdd(JsMul(date.hours, 60), date.minutes)

\* mutant: the window excludes its two end minutes
TripInWindowStrict(trip, tf) ==
    LET startedMinutes == minutesSinceMidnight(trip.started_at)
        endedMinutes == minutesSinceMidnight(trip.ended_at)
    IN  \/ JsLeq(JsAbs(JsSub(startedMinutes, tf)), 59)
        \/ JsLeq(JsAbs(JsSub(endedMinutes, tf)), 59)

\* the callback of trips.filter
TripInWindow(trip, tf) ==
    LET startedMinutes == minutesSinceMidnight(trip.started_at)
        endedMinutes == minutesSinceMidnight(trip.ended_at)
    IN  \/ JsLeq(JsAbs(JsSub(startedMinutes, tf)), 60)
        \/ JsLeq(JsAbs(JsSub(endedMinutes, tf)), 60)

RECURSIVE ArrayFilter(_, _)
ArrayFilter(T, tf) ==
    IF T = <<>> THEN <<>>
    ELSE IF TripInWindow(Head(T), tf)
         THEN <<Head(T)>> \o ArrayFilter(Tail(T), tf)
         ELSE ArrayFilter(Tail(T), tf)

\* mutant: -1 is not told apart from a minute of the day
filterTripsbyTimeNoSentinel(T, tf) == ArrayFilter(T, tf)

filterTripsbyTime(T, tf) ==
    IF JsStrictEq(tf, -1) THEN T ELSE ArrayFilter(T, tf)

\* d3.rollup(trips, v => v.length, d => d[field]): a map from each key
\* that occurs to the number of trips carrying it
RECURSIVE rollup(_, _)
rollup(T, field) ==
    IF T = <<>> THEN << >>
    ELSE LET rest == rollup(SubSeq(T, 1, Len(T) - 1), field)
             k == T[Len(T)][field]
         IN  [x \in DOMAIN rest \cup {k} |->
                 IF x = k
                 THEN (IF k \in DOMAIN rest THEN rest[k] ELSE 0) + 1
                 ELSE rest[x]]

\* map.get(id) ?? 0
GetOrZero(m, id) == IF id \in DOMAIN m THEN m[id] ELSE 0

\* station[f] = v on a station object
SetField(obj, f, v) ==
    IF f \in DOMAIN obj THEN [obj EXCEPT ![f] = v] ELSE (f :> v) @@ obj

\* the station's field, 0 when the object does not have it yet
FieldOrZero(obj, f) == IF f \in DOMAIN obj THEN obj[f] ELSE 0

WithCounts(station, arr, dep, total) ==
    SetField(SetField(SetField(station, "arrivals", arr), "departures", dep),
             "totalTraffic", total)

\* mutant: the counts are added to the station's previous counts
computeStationTrafficAccumulate(S, T) ==
    LET departures == rollup(T, "start_station_id")
        arrivals == rollup(T, "end_station_id")
    IN  [i \in DOMAIN S |->
            LET arr == FieldOrZero(S[i], "arrivals") + GetOrZero(arrivals, S[i].short_name)
                dep == FieldOrZero(S[i], "departures") + GetOrZero(departures, S[i].short_name)
            IN  WithCounts(S[i], arr, dep, arr + dep)]

\* mutant: the two count maps are keyed by the wrong endpoint
computeStationTrafficSwapped(S, T) ==
    LET departures == rollup(T, "end_station_id")
        arrivals == rollup(T, "start_station_id")
    IN  [i \in DOMAIN S |->
            LET arr == GetOrZero(arrivals, S[i].short_name)
                dep == GetOrZero(departures, S[i].short_name)
            IN  WithCounts(S[i], arr, dep, arr + dep)]

\* mutant: totalTraffic counts the departures only
computeStationTrafficTotal(S, T) ==
    LET departures == rollup(T, "start_station_id")
        arrivals == rollup(T, "end_station_id")
    IN  [i \in DOMAIN S |->
            LET arr == GetOrZero(arrivals, S[i].short_name)
                dep == GetOrZero(departures, S[i].short_name)
            IN  WithCounts(S[i], arr, dep, dep)]

\* mutant: only trips whose two endpoints are both stations are counted
computeStationTrafficKnownOnly(S, T) ==
    LET ids == { S[i].short_name : i \in DOMAIN S }
        known == SelectSeq(T, LAMBDA t : t.start_station_id \in ids /\ t.end_station_id \in ids)
        departures == rollup(known, "start_station_id")
        arrivals == rollup(known, "end_station_id")
    IN  [i \in DOMAIN S |->
            LET arr == GetOrZero(arrivals, S[i].short_name)
                dep == GetOrZero(departures, S[i].short_name)
            IN  WithCounts(S[i], arr, dep, arr + dep)]

\* mutant: stations without traffic are left out of the result
computeStationTrafficDropIdle(S, T) ==
    LET departures == rollup(T, "start_station_id")
        arrivals == rollup(T, "end_station_id")
        counted == [i \in DOMAIN S |->
                      LET arr == GetOrZero(arrivals, S[i].short_name)
                          dep == GetOrZero(departures, S[i].short_name)
                      IN  WithCounts(S[i], arr, dep, arr + dep)]
    IN  SelectSeq(counted, LAMBDA st : st.totalTraffic > 0)

computeStationTraffic(S, T) ==
    LET departures == rollup(T, "start_station_id")
        arrivals == rollup(T, "end_station_id")
    IN  [i \in DOMAIN S |->
            LET arr == GetOrZero(arrivals, S[i].short_name)
                dep == GetOrZero(departures, S[i].short_name)
            IN  WithCounts(S[i], arr, dep, arr + dep)]

(***************************************************************************)
(* The scales.                                                             *)
(***************************************************************************)
\* d3.max(stations, d => d.totalTraffic); undefined for no station, which
\* scale.domain coerces to NaN
D3Max(S) ==
    IF S = <<>> THEN NaN
    ELSE CHOOSE m \in { S[i].totalTraffic : i \in DOMAIN S } :
            \A i \in DOMAIN S : S[i].totalTraffic <= m

RECURSIVE IsqrtIn(_, _, _)
IsqrtIn(n, lo, hi) ==
    IF lo = hi THEN lo
    ELSE LET mid == (lo + hi + 1) \div 2
         IN  IF mid * mid <= n THEN IsqrtIn(n, mid, hi) ELSE IsqrtIn(n, lo, mid - 1)

\* the largest r with r * r <= n
Isqrt(n) == IsqrtIn(n, 0, 46340)

\* radiusScale(x) for the domain [0, d1] and the range [r0, r1], in
\* hundredths of a pixel rounded down: r0 + (r1 - r0) * sqrt(x / d1).  d3
\* maps every input to the middle of the range when the domain is [0, 0]
\* and to NaN when a domain bound is NaN.
Scale(rs, x) ==
    LET d1 == rs.domain[2]
        r0 == rs.range[1]
        r1 == rs.range[2]
    IN  IF IsNaN(x) \/ IsNaN(d1) THEN NaN
        ELSE IF d1 = rs.domain[1] THEN 50 * (r0 + r1)
        ELSE 100 * r0 + Isqrt(((r1 - r0) * (r1 - r0) * 10000 * x) \div d1)

\* mutant: each threshold belongs to the bucket below it
stationFlowLowerEdge(num, den) ==
    IF 3 * num <= den THEN "0"
    ELSE IF 3 * num <= 2 * den THEN "0.5"
    ELSE "1"

\* stationFlow(num / den): d3.scaleQuantize().domain([0, 1]).range([0, 0.5, 1])
\* has the thresholds 1/3 and 2/3, each belonging to the bucket above it.
\* The result is the string the style property receives.
stationFlow(num, den) ==
    IF 3 * num < den THEN "0"
    ELSE IF 3 * num < 2 * den THEN "0.5"
    ELSE "1"

\* the argument of stationFlow in updateScatterPlot
DepartureRatio(d) ==
    IF d.totalTraffic = 0 THEN stationFlow(1, 2)
    ELSE stationFlow(d.departures, d.totalTraffic)

\* `${d.totalTraffic} trips (${d.departures} departures, ${d.arrivals} arrivals)`
TitleText(d) ==
    << d.totalTraffic, "trips", d.departures, "departures", d.arrivals, "arrivals" >>

\* mutant: every filter value gets the filtered range
DynamicRangeFiltered(tf) == <<3, 50>>

\* the 'Dynamic scale range' branch of updateScatterPlot
DynamicRange(tf) == IF JsStrictEq(tf, -1) THEN <<0, 25>> ELSE <<3, 50>>

\* mutant: the domain is derived again from the stations just aggregated
ScaleAfterFilterRederived(rs, S, tf) ==
    [domain |-> <<0, D3Max(S)>>, range |-> DynamicRange(tf)]

\* what updateScatterPlot does to radiusScale: the range only
ScaleAfterFilter(rs, S, tf) == [rs EXCEPT !.range = DynamicRange(tf)]

(***************************************************************************)
(* The circles.  A circle is an element with its bound datum (`datum` is   *)
(* the position of the bound station object in the station array; the      *)
(* objects are mutated in place, so a circle always sees its station's     *)
(* current fields) and the attributes the code has set on it.              *)
(***************************************************************************)
\* svg.selectAll('circle').data(stations, key).enter().append('circle') with
\* its r attribute and its <title> child
InitialCircles(S, rs) ==
    [i \in DOMAIN S |->
        [elem |-> i, datum |-> i,
         r |-> Scale(rs, S[i].totalTraffic),
         title |-> TitleText(S[i])]]

\* mutant: the view listener derives the scale's domain again from the
\* stations' current totals before it sets r
updatePositionsRescaled(C, S, rs, v) ==
    [i \in DOMAIN C |->
        LET d == S[C[i].datum]
        IN  SetField(SetField(SetField(C[i],
                "cx", getCoords(d, v).cx),
                "cy", getCoords(d, v).cy),
                "r", Scale([rs EXCEPT !.domain = <<0, D3Max(S)>>], d.totalTraffic))]

updatePositions(C, S, rs, v) ==
    [i \in DOMAIN C |->
        LET d == S[C[i].datum]
        IN  SetField(SetField(SetField(C[i],
                "cx", getCoords(d, v).cx),
                "cy", getCoords(d, v).cy),
                "r", Scale(rs, d.totalTraffic))]

\* the key d => d.short_name of a circle's bound datum
KeyOf(c, S) == S[c.datum].short_name

\* the youngest element among the circles; elements are numbered in the
\* order in which they were created
MaxElem(C) ==
    IF C = << >> THEN 0
    ELSE CHOOSE m \in { C[i].elem : i \in DOMAIN C } : \A i \in DOMAIN C : C[i].elem <= m

\* mutant: the join has no key match, every datum enters as a new circle
JoinAllEnter(C, S, data) ==
    [j \in DOMAIN data |-> [elem |-> MaxElem(C) + j, datum |-> j, title |-> << >>]]

\* circles.data(data, key).join(enter, update, exit): in data order, the
\* first circle bound to the datum's key, rebound to the datum, or a new
\* circle without title; circles whose key no datum has are removed
Join(C, S, data) ==
    [j \in DOMAIN data |->
        LET matching == { i \in DOMAIN C : KeyOf(C[i], S) = data[j].short_name }
        IN  IF matching # {}
            THEN LET i == CHOOSE x \in matching : \A y \in matching : x <= y
                 IN  [C[i] EXCEPT !.datum = j]
            ELSE [elem |-> MaxElem(C) + j, datum |-> j, title |-> << >>]]

\* .attr('cx') .attr('cy') .attr('r') .style('--departure-ratio') on the
\* joined selection
SetJoinedAttrs(C, S, rs, v) ==
    [i \in DOMAIN C |->
        LET d == S[C[i].datum]
        IN  SetField(SetField(SetField(SetField(C[i],
                "cx", getCoords(d, v).cx),
                "cy", getCoords(d, v).cy),
                "r", Scale(rs, d.totalTraffic)),
                "departureRatio", DepartureRatio(d))]

\* updateScatterPlot(timeFilter): the values of the state it writes
updateScatterPlot(tf, S, T, rs, C, v) ==
    LET ft == filterTripsbyTime(T, tf)
        filteredStations == computeStationTraffic(S, ft)
        scale == ScaleAfterFilter(rs, filteredStations, tf)
    IN  [filteredTrips |-> ft,
         stations |-> filteredStations,
         radiusScale |-> scale,
         circles |-> SetJoinedAttrs(Join(C, S, filteredStations),
                                    filteredStations, scale, v)]

\* updateTimeDisplay(): the values of the state it writes
updateTimeDisplay(sv, S, T, rs, C, v) ==
    LET tf == Number(sv)
        plot == updateScatterPlot(tf, S, T, rs, C, v)
    IN  [timeFilter |-> tf,
         selectedTime |-> IF JsStrictEq(tf, -1) THEN << >> ELSE formatTime(tf),
         anyTimeDisplay |-> IF JsStrictEq(tf, -1) THEN "block" ELSE "none",
         plot |-> plot]

(***************************************************************************)
(* The state machine.                                                      *)
(***************************************************************************)
NoScale == [domain |-> << >>, range |-> << >>]

\* The page before the map's 'load' event.  The closure variables of the
\* load handler do not exist yet: timeFilter holds the value its declaration
\* will give it, radiusScale and circles are empty.  The slider starts on
\* the 'any time' position and the user may move it at any moment.
Init ==
    /\ pc = "init"
    /\ view = 0
    /\ sliderValue = <<"-", "1">>
    /\ listeners = {}
    /\ consoleErrors = << >>
    /\ stations = << >>
    /\ trips = << >>
    /\ timeFilter = -1
    /\ filteredTrips = << >>
    /\ radiusScale = NoScale
    /\ circles = << >>
    /\ selectedTime = << >>
    /\ anyTimeDisplay = ""

\* the map fires 'load': the handler adds the bike lane layers and awaits
\* the station dataset
MapLoad ==
    /\ pc = "init"
    /\ pc' = "awaitStations"
    /\ UNCHANGED <<view, sliderValue, listeners, consoleErrors, stations, trips,
                   timeFilter, filteredTrips, radiusScale, circles,
                   selectedTime, anyTimeDisplay>>

\* d3.json resolves: stations = jsonData.data.stations, then the handler
\* awaits the trip dataset
StationsLoaded ==
    /\ pc = "awaitStations"
    /\ \E S \in StationLists : stations' = S
    /\ pc' = "awaitTrips"
    /\ UNCHANGED <<view, sliderValue, listeners, consoleErrors, trips,
                   timeFilter, filteredTrips, radiusScale, circles,
                   selectedTime, anyTimeDisplay>>

\* d3.json rejects: the catch block logs and returns
StationsLoadFailed ==
    /\ pc = "awaitStations"
    /\ consoleErrors' = Append(consoleErrors, "Error loading stations:")
    /\ pc' = "returned"
    /\ UNCHANGED <<view, sliderValue, listeners, stations, trips,
                   timeFilter, filteredTrips, radiusScale, circles,
                   selectedTime, anyTimeDisplay>>

\* d3.csv rejects outside any try block: the handler's promise rejects and
\* nothing after the await runs
TripsLoadFailed ==
    /\ pc = "awaitTrips"
    /\ pc' = "rejected"
    /\ UNCHANGED <<view, sliderValue, listeners, consoleErrors, stations, trips,
                   timeFilter, filteredTrips, radiusScale, circles,
                   selectedTime, anyTimeDisplay>>

\* the handler from the initial aggregation to its end, for the trip
\* dataset T: the values of the state it writes
AfterTripsLoaded(S, T, sv, v) ==
    LET aggregated == computeStationTraffic(S, T)
        scale == [domain |-> <<0, D3Max(aggregated)>>, range |-> <<0, 25>>]
        drawn == updatePositions(InitialCircles(aggregated, scale),
                                 aggregated, scale, v)
    IN  updateTimeDisplay(sv, aggregated, T, scale, drawn, v)

\* d3.csv resolves: the rest of the handler runs to its end
TripsLoaded ==
    /\ pc = "awaitTrips"
    /\ \E T \in TripLists :
        \E ui \in {AfterTripsLoaded(stations, T, sliderValue, view)} :
            /\ trips' = T
            /\ timeFilter' = ui.timeFilter
            /\ selectedTime' = ui.selectedTime
            /\ anyTimeDisplay' = ui.anyTimeDisplay
            /\ filteredTrips' = ui.plot.filteredTrips
            /\ stations' = ui.plot.stations
            /\ radiusScale' = ui.plot.radiusScale
            /\ circles' = ui.plot.circles
    /\ listeners' = MapEvents \cup {"input"}
    /\ pc' = "ready"
    /\ UNCHANGED <<view, sliderValue, consoleErrors>>

\* mutant: the 'input' listener is attached before the datasets are loaded
SliderInputEager ==
    \E v \in SliderValues :
        /\ sliderValue' = v
        /\ \E ui \in {updateTimeDisplay(v, stations, trips, radiusScale,
                                        circles, view)} :
              /\ timeFilter' = ui.timeFilter
              /\ selectedTime' = ui.selectedTime
              /\ anyTimeDisplay' = ui.anyTimeDisplay
              /\ filteredTrips' = ui.plot.filteredTrips
              /\ stations' = ui.plot.stations
              /\ radiusScale' = ui.plot.radiusScale
              /\ circles' = ui.plot.circles
        /\ UNCHANGED <<pc, view, listeners, consoleErrors, trips>>

\* the user moves the slider: its value changes and an 'input' event is
\* dispatched, which runs updateTimeDisplay once that listener is registered
SliderInput ==
    \E v \in SliderValues :
        /\ sliderValue' = v
        /\ IF "input" \in listeners
           THEN \E ui \in {updateTimeDisplay(v, stations, trips, radiusScale,
                                            circles, view)} :
                    /\ timeFilter' = ui.timeFilter
                    /\ selectedTime' = ui.selectedTime
                    /\ anyTimeDisplay' = ui.anyTimeDisplay
                    /\ filteredTrips' = ui.plot.filteredTrips
                    /\ stations' = ui.plot.stations
                    /\ radiusScale' = ui.plot.radiusScale
                    /\ circles' = ui.plot.circles
           ELSE UNCHANGED <<timeFilter, selectedTime, anyTimeDisplay,
                            filteredTrips, stations, radiusScale, circles>>
        /\ UNCHANGED <<pc, view, listeners, consoleErrors, trips>>

\* the map's view changes and the map emits move, zoom, resize or moveend,
\* which runs updatePositions once that listener is registered
MapEvent ==
    \E e \in MapEvents, v \in 0..MaxView :
        /\ view' = v
        /\ IF e \in listeners
           THEN circles' = updatePositions(circles, stations, radiusScale, v)
           ELSE UNCHANGED circles
        /\ UNCHANGED <<pc, sliderValue, listeners, consoleErrors, stations, trips,
                       timeFilter, filteredTrips, radiusScale, selectedTime,
                       anyTimeDisplay>>

Next ==
    \/ MapLoad
    \/ StationsLoaded
    \/ StationsLoadFailed
    \/ TripsLoadFailed
    \/ TripsLoaded
    \/ SliderInput
    \/ MapEvent

Spec == Init /\ [][Next]_vars

(***************************************************************************)
(* Reference definitions for the properties: the counts a station ought to *)
(* have, obtained by counting trips directly.                              *)
(***************************************************************************)
Ready == pc = "ready"

\* the date is well formed and its minute of day lies in [m - 60, m + 60]
WithinHour(date, m) ==
    /\ date # InvalidDate
    /\ m # NaN
    /\ m - 60 <= date.hours * 60 + date.minutes
    /\ date.hours * 60 + date.minutes <= m + 60

\* positions in the trip dataset of the trips the filter value f selects
SelectedBy(f) ==
    IF f = -1 THEN DOMAIN trips
    ELSE { k \in DOMAIN trips :
             WithinHour(trips[k].started_at, f) \/ WithinHour(trips[k].ended_at, f) }

ArrivalsAt(id, sel) == Cardinality({ k \in sel : trips[k].end_station_id = id })

DeparturesAt(id, sel) == Cardinality({ k \in sel : trips[k].start_station_id = id })

RECURSIVE SumField(_, _)
SumField(S, f) == IF S = << >> THEN 0 ELSE Head(S)[f] + SumField(Tail(S), f)

\* the j-th smallest member of a set of positions
NthOf(set, j) == CHOOSE k \in set : Cardinality({ x \in set : x < k }) = j - 1

\* the largest unfiltered total over the stations; NaN without stations
UnfilteredMax ==
    IF stations = << >> THEN NaN
    ELSE LET totals == { ArrivalsAt(stations[i].short_name, DOMAIN trips)
                           + DeparturesAt(stations[i].short_name, DOMAIN trips) :
                         i \in DOMAIN stations }
         IN  CHOOSE m \in totals : \A t \in totals : t <= m

(***************************************************************************)
(* C1: after any sequence of slider changes and map view events every      *)
(* station's arrivals, departures and totalTraffic are the counts of        *)
(* exactly the trips selected by the current filter value.                  *)
(***************************************************************************)
C1_CountsMatchCurrentFilter ==
    Ready =>
        \A i \in DOMAIN stations :
            LET id == stations[i].short_name
                sel == SelectedBy(timeFilter)
            IN  /\ stations[i].arrivals = ArrivalsAt(id, sel)
                /\ stations[i].departures = DeparturesAt(id, sel)
                /\ stations[i].totalTraffic = ArrivalsAt(id, sel) + DeparturesAt(id, sel)

\* a minute filter that selects some but not all trips, after a view change
C1_Witness ==
    /\ Ready
    /\ timeFilter = 420
    /\ view = 1
    /\ Len(filteredTrips) = 1
    /\ Len(trips) = 2
    /\ \E i \in DOMAIN stations :
          /\ stations[i].departures = 1
          /\ DeparturesAt(stations[i].short_name, DOMAIN trips) = 2

(***************************************************************************)
(* C2: after every aggregation each station has totalTraffic = arrivals +  *)
(* departures with all three >= 0, and the arrivals and the departures     *)
(* each sum to at most the number of trips aggregated.                     *)
(***************************************************************************)
C2_AggregateInvariant ==
    Ready =>
        /\ \A i \in DOMAIN stations :
              /\ stations[i].totalTraffic = stations[i].arrivals + stations[i].departures
              /\ stations[i].arrivals >= 0
              /\ stations[i].departures >= 0
              /\ stations[i].totalTraffic >= 0
        /\ SumField(stations, "arrivals") <= Len(filteredTrips)
        /\ SumField(stations, "departures") <= Len(filteredTrips)

\* two stations, two trips aggregated, one arrival lost to an unknown id
C2_Witness ==
    /\ Ready
    /\ Len(stations) = 2
    /\ Len(filteredTrips) = 2
    /\ SumField(stations, "arrivals") = 1
    /\ SumField(stations, "departures") = 2

C4_CircleOutputsFollowFilter ==
    Ready =>
        \A i \in DOMAIN circles :
            LET id == stations[circles[i].datum].short_name
                sel == SelectedBy(timeFilter)
                arr == ArrivalsAt(id, sel)
                dep == DeparturesAt(id, sel)
            IN  /\ circles[i].r = Scale(radiusScale, arr + dep)
                /\ circles[i].departureRatio =
                      (IF arr + dep = 0 THEN "0.5"
                       ELSE IF 3 * dep < arr + dep THEN "0"
                       ELSE IF 3 * dep < 2 * (arr + dep) THEN "0.5"
                       ELSE "1")
                /\ circles[i].title =
                      << arr + dep, "trips", dep, "departures", arr, "arrivals" >>

(***************************************************************************)
(* C5 as stated: a slider value that does not convert to an integer in     *)
(* [-1, 1439] is treated as Unfiltered: all trips are selected, the        *)
(* station counts are the unfiltered counts, the radius range is [0, 25]   *)
(* and the 'any time' indicator is shown.                                  *)
(***************************************************************************)
C5_MalformedIsUnfiltered ==
    (Ready /\ (IsNaN(timeFilter) \/ timeFilter < -1 \/ timeFilter > 1439)) =>
        /\ filteredTrips = trips
        /\ \A i \in DOMAIN stations :
              /\ stations[i].arrivals = ArrivalsAt(stations[i].short_name, DOMAIN trips)
              /\ stations[i].departures = DeparturesAt(stations[i].short_name, DOMAIN trips)
        /\ radiusScale.range = <<0, 25>>
        /\ anyTimeDisplay = "block"

(***************************************************************************)
(* C6 as stated: when the station dataset or the trip dataset fails to     *)
(* load, no aggregation runs, no circle is drawn, no slider or map         *)
(* listener is registered, and a diagnostic is reported for the failure.   *)
(***************************************************************************)
C6_LoadFailureIsFatalAndReported ==
    pc \in {"returned", "rejected"} =>
        /\ \A i \in DOMAIN stations : "totalTraffic" \notin DOMAIN stations[i]
        /\ circles = << >>
        /\ listeners = {}
        /\ consoleErrors # << >>

(***************************************************************************)
(* C7 as stated: a trip whose started_at or ended_at is malformed adds to  *)
(* no station's arrivals or departures under any filter value, Unfiltered  *)
(* included: every count is made of well-formed trips only.                *)
(***************************************************************************)
C7_MalformedTripsNeverCount ==
    Ready =>
        LET wellFormed == { k \in DOMAIN trips :
                              /\ trips[k].started_at # InvalidDate
                              /\ trips[k].ended_at # InvalidDate }
        IN  \A i \in DOMAIN stations :
              /\ stations[i].arrivals <= ArrivalsAt(stations[i].short_name, wellFormed)
              /\ stations[i].departures <= DeparturesAt(stations[i].short_name, wellFormed)

(***************************************************************************)
(* C8: for a filter minute m in [0, 1439] the trips handed to the          *)
(* aggregation are exactly the trips whose start or end minute of day is   *)
(* within 60 of m, in dataset order, with no wraparound across midnight.   *)
(***************************************************************************)
C8_WindowSelection ==
    (Ready /\ timeFilter \in 0..1439) =>
        LET sel == { k \in DOMAIN trips :
                       \/ WithinHour(trips[k].started_at, timeFilter)
                       \/ WithinHour(trips[k].ended_at, timeFilter) }
        IN  /\ Len(filteredTrips) = Cardinality(sel)
            /\ \A j \in DOMAIN filteredTrips : filteredTrips[j] = trips[NthOf(sel, j)]

\* filter minute 10: the 23:50 trip is left out, the 00:05 trip is kept
C8_Witness ==
    /\ Ready
    /\ timeFilter = 10
    /\ \E k \in DOMAIN trips : trips[k].started_at = Date(23, 50)
    /\ Len(filteredTrips) = 1
    /\ filteredTrips[1].started_at = Date(0, 5)

(***************************************************************************)
(* C9: aggregating a second time with the same stations and the same trips *)
(* leaves every station's counts as the first aggregation set them.        *)
(***************************************************************************)
C9_AggregateIdempotent ==
    Ready => computeStationTraffic(stations, filteredTrips) = stations

\* stations that carry non-zero counts from the aggregation just run
C9_Witness ==
    /\ Ready
    /\ Len(filteredTrips) = 2
    /\ \E i \in DOMAIN stations :
          /\ stations[i].arrivals >= 1
          /\ stations[i].departures >= 1

(***************************************************************************)
(* C10: after a filter-change handler returns the radius scale's range is  *)
(* [0, 25] exactly when the current filter is -1 and [3, 50] otherwise.    *)
(***************************************************************************)
C10_RangeFollowsFilter ==
    Ready =>
        /\ (radiusScale.range = <<0, 25>>) <=> (timeFilter = -1)
        /\ (timeFilter # -1) => radiusScale.range = <<3, 50>>

\* a minute filter is active and the circles are drawn with the wide range
C10_Witness ==
    /\ Ready
    /\ timeFilter = 600
    /\ radiusScale.range = <<3, 50>>
    /\ \E i \in DOMAIN circles : circles[i].r = 100 * 50

(***************************************************************************)
(* C11: a map view event (move, zoom, resize, moveend) re-derives circle   *)
(* positions only: the filter, every station's counts, the radius scale's  *)
(* domain and range, and every circle's radius and flow-ratio style are    *)
(* what they were before the event.                                        *)
(***************************************************************************)
C11_ViewEventMovesOnly ==
    [][ (MapEvent /\ Ready) =>
            /\ timeFilter' = timeFilter
            /\ stations' = stations
            /\ radiusScale' = radiusScale
            /\ filteredTrips' = filteredTrips
            /\ Len(circles') = Len(circles)
            /\ \A i \in DOMAIN circles :
                  /\ circles'[i].elem = circles[i].elem
                  /\ circles'[i].datum = circles[i].datum
                  /\ circles'[i].r = circles[i].r
                  /\ circles'[i].departureRatio = circles[i].departureRatio
                  /\ circles'[i].title = circles[i].title
                  /\ circles'[i].cx = stations[circles[i].datum].lon + view'
                  /\ circles'[i].cy = stations[circles[i].datum].lat + view' ]_vars

\* the view has moved while a minute filter leaves the busiest station with
\* less traffic than the domain's upper end: the circles sit at the moved
\* positions
C11_Witness ==
    /\ Ready
    /\ view = 1
    /\ timeFilter = 420
    /\ radiusScale.domain = <<0, 2>>
    /\ \E i \in DOMAIN circles :
          /\ stations[circles[i].datum].totalTraffic = 1
          /\ circles[i].cx = stations[circles[i].datum].lon + 1
          /\ circles[i].r > 100 * 3

(***************************************************************************)
(* C12: a trip whose start or end station id matches no station does not   *)
(* stop the aggregation and adds nothing for that endpoint, while its      *)
(* other endpoint, when it matches a station, is counted: the arrivals sum *)
(* to the number of aggregated trips that end at a station, the departures *)
(* to the number that start at one.                                        *)
(***************************************************************************)
C12_UnknownEndpointIgnored ==
    Ready =>
        LET ids == { stations[i].short_name : i \in DOMAIN stations }
        IN  /\ SumField(stations, "arrivals") =
                  Cardinality({ k \in DOMAIN filteredTrips :
                                  filteredTrips[k].end_station_id \in ids })
            /\ SumField(stations, "departures") =
                  Cardinality({ k \in DOMAIN filteredTrips :
                                  filteredTrips[k].start_station_id \in ids })
            /\ \A i \in DOMAIN stations : "totalTraffic" \in DOMAIN stations[i]

\* the only trip aggregated ends at an unknown id: its start is counted
C12_Witness ==
    /\ Ready
    /\ Len(filteredTrips) = 1
    /\ filteredTrips[1].end_station_id = "X"
    /\ SumField(stations, "arrivals") = 0
    /\ \E i \in DOMAIN stations :
          /\ stations[i].short_name = filteredTrips[1].start_station_id
          /\ stations[i].departures = 1

C14_DepartureRatioBuckets ==
    Ready =>
        \A i \in DOMAIN circles :
            LET d == stations[circles[i].datum]
                ratio == circles[i].departureRatio
            IN  /\ ratio \in {"0", "0.5", "1"}
                /\ d.totalTraffic = 0 => ratio = "0.5"
                /\ (d.totalTraffic > 0 /\ 3 * d.departures < d.totalTraffic)
                      => ratio = "0"
                /\ (d.totalTraffic > 0 /\ d.totalTraffic <= 3 * d.departures
                      /\ 3 * d.departures < 2 * d.totalTraffic)
                      => ratio = "0.5"
                /\ (d.totalTraffic > 0 /\ 3 * d.departures >= 2 * d.totalTraffic)
                      => ratio = "1"

\* a station on the lower bucket edge (a third of its traffic departs) next
\* to a station with departures only
C14_Witness ==
    /\ Ready
    /\ \E i \in DOMAIN circles :
          /\ stations[circles[i].datum].totalTraffic = 3
          /\ stations[circles[i].datum].departures = 1
          /\ circles[i].departureRatio = "0.5"
    /\ \E i \in DOMAIN circles :
          /\ stations[circles[i].datum].totalTraffic = 1
          /\ stations[circles[i].datum].departures = 1
          /\ circles[i].departureRatio = "1"

(***************************************************************************)
(* C15 as stated: whenever the current filter minute selects no trips,     *)
(* every station has arrivals = departures = totalTraffic = 0 and every    *)
(* circle's radius is the minimum of the active range.                     *)
(***************************************************************************)
C15_EmptySelectionDrawsMinimum ==
    (Ready /\ timeFilter \in 0..1439 /\ filteredTrips = << >>) =>
        /\ \A i \in DOMAIN stations :
              /\ stations[i].arrivals = 0
              /\ stations[i].departures = 0
              /\ stations[i].totalTraffic = 0
        /\ \A i \in DOMAIN circles : circles[i].r = 100 * radiusScale.range[1]

(***************************************************************************)
(* C16 as stated: when the maximum totalTraffic that gives the radius      *)
(* scale its domain is zero, or there is no station, the radius of every   *)
(* station is the minimum of the active range and never NaN.               *)
(***************************************************************************)
C16_DegenerateDomainDrawsMinimum ==
    (Ready /\ (stations = << >> \/ radiusScale.domain = <<0, 0>>)) =>
        \A i \in DOMAIN circles :
            /\ ~IsNaN(circles[i].r)
            /\ circles[i].r = 100 * radiusScale.range[1]

(***************************************************************************)
(* C17: with the filter value -1 all trips are selected, in dataset order, *)
(* and every station's counts are those of the initial full aggregation,   *)
(* which the circle's tooltip text recorded when it was drawn.             *)
(***************************************************************************)
C17_UnfilteredIsFullAggregation ==
    (Ready /\ timeFilter = -1) =>
        /\ filteredTrips = trips
        /\ \A i \in DOMAIN circles :
              LET d == stations[circles[i].datum]
              IN  circles[i].title =
                    << d.totalTraffic, "trips", d.departures, "departures",
                       d.arrivals, "arrivals" >>

\* the slider is on -1 and a station carries the traffic of both trips, one
\* of which no minute filter below 61 would leave out
C17_Witness ==
    /\ Ready
    /\ timeFilter = -1
    /\ Len(filteredTrips) = 2
    /\ \E k \in DOMAIN trips : trips[k].started_at = Date(0, 5)
    /\ \E i \in DOMAIN stations : stations[i].totalTraffic = 2

(***************************************************************************)
(* C18: every aggregation pass and every filter or view event leaves each  *)
(* station's short_name, lon and lat, the number and order of the stations *)
(* and the whole trip dataset as they were; of a station only arrivals,    *)
(* departures and totalTraffic are written.                                *)
(***************************************************************************)
C18_IdentityAndTripsUntouched ==
    [][ (pc \in {"awaitTrips", "ready"}) =>
            /\ Len(stations') = Len(stations)
            /\ \A i \in DOMAIN stations :
                  /\ stations'[i].short_name = stations[i].short_name
                  /\ stations'[i].lon = stations[i].lon
                  /\ stations'[i].lat = stations[i].lat
                  /\ DOMAIN stations'[i] \subseteq
                        {"short_name", "lon", "lat", "arrivals", "departures", "totalTraffic"}
            /\ (pc = "ready" => trips' = trips) ]_vars

\* after a pass that left every station without traffic: two stations in
\* dataset order with their coordinates, two trips in the dataset
C18_Witness ==
    /\ Ready
    /\ timeFilter = 600
    /\ view = 1
    /\ Len(trips) = 2
    /\ filteredTrips = << >>
    /\ Len(stations) = 2
    /\ stations[1].short_name = "B" /\ stations[1].lon = 3 /\ stations[1].lat = 4
    /\ stations[2].short_name = "A" /\ stations[2].totalTraffic = 0

(***************************************************************************)
(* C19: no filter recomputation and no position update runs before both    *)
(* datasets are loaded and the initial aggregation is done: until then no  *)
(* listener is registered and slider and map events leave no trace but the *)
(* slider's value and the view; the recomputation that ends the load uses  *)
(* the slider's value of that moment, as does every later one.             *)
(***************************************************************************)
C19_NoRecomputationBeforeLoad ==
    /\ ~Ready =>
          /\ listeners = {}
          /\ circles = << >>
          /\ filteredTrips = << >>
          /\ trips = << >>
          /\ radiusScale = NoScale
          /\ selectedTime = << >>
          /\ anyTimeDisplay = ""
          /\ \A i \in DOMAIN stations : DOMAIN stations[i] = {"short_name", "lon", "lat"}
    /\ Ready =>
          /\ listeners = MapEvents \cup {"input"}
          /\ timeFilter =
                (CASE sliderValue = <<"-", "1">> -> -1
                   [] sliderValue = << >> -> 0
                   [] sliderValue = <<"1", "0">> -> 10
                   [] sliderValue = <<"4", "2", "0">> -> 420
                   [] sliderValue = <<"4", "8", "0">> -> 480
                   [] sliderValue = <<"6", "0", "0">> -> 600
                   [] sliderValue = <<"2", "0", "0", "0">> -> 2000
                   [] OTHER -> NaN)

\* the trip dataset is still awaited; the user has moved the slider and the
\* map, and nothing has been aggregated or drawn
C19_Witness ==
    /\ pc = "awaitTrips"
    /\ sliderValue = <<"6", "0", "0">>
    /\ view = 1
    /\ Len(stations) = 2
    /\ circles = << >>
    /\ listeners = {}

====
